---- MODULE Spec2Model ----
(***************************************************************************)
(* A model of articles/models.py: the Tag and Article models, the active   *)
(* manager, the save/load lifecycle, the teaser, the link-title cache and  *)
(* the previous/next navigation.                                           *)
(*                                                                         *)
(* Text is modelled as a sequence of one-character strings, so that        *)
(* str.replace, str.split, str.strip, str.lower and the regular            *)
(* expressions act on characters as they do in the source.                 *)
(***************************************************************************)
EXTENDS Integers, Sequences, FiniteSets, TLC

VARIABLES
    now,        \* datetime.now(), in seconds
    tag,        \* the in-memory Tag instance
    tagdb,      \* the stored Tag rows (names are unique)
    db,         \* the stored Article rows, by id
    db_tags,    \* Article.tags: per article id, the tag names in the order attached
    db_sites,   \* Article.sites: per article id, the set of sites
    inst,       \* the in-memory Article instances
    cache,      \* django.core.cache: key -> [value, expires]
    calls,      \* per in-memory instance: its evaluation of links in progress
    wrote,      \* per cache key: the anchor text and the page title (None when the
                \* fetch found none) of the evaluation that last set the key
    hist,       \* per in-memory instance: what the first read of each property returned
    flips,      \* per article id: whether a load has marked it inactive, and whether
                \* a save has stored it active again since
    obs         \* what the last operation was given and what it returned

vars == <<now, tag, tagdb, db, db_tags, db_sites, inst, cache, calls, wrote, hist, flips, obs>>

----------------------------------------------------------------------------
(* Characters and text *)

UpperChars == <<"A","B","C","D","E","F","G","H","I","J","K","L","M",
                "N","O","P","Q","R","S","T","U","V","W","X","Y","Z">>
LowerChars == <<"a","b","c","d","e","f","g","h","i","j","k","l","m",
                "n","o","p","q","r","s","t","u","v","w","x","y","z">>
DigitChars == {"0","1","2","3","4","5","6","7","8","9"}
UpperSet == {UpperChars[k] : k \in 1..26}
LowerSet == {LowerChars[k] : k \in 1..26}

\* the whitespace that has no escape in a string literal, each written as the
\* character itself, and its codes: the vertical tab, the four separators,
\* the next-line control and the no-break space
RawSpaces == <<"", "", "", "", "", "", " ">>
RawCodes == <<11, 28, 29, 30, 31, 133, 160>>
VT == RawSpaces[1]

\* the characters unicode.strip() removes, among the characters of code
\* below 256
Whitespace == {" ", "\t", "\n", "\r", "\f"} \cup {RawSpaces[k] : k \in 1..Len(RawSpaces)}

\* the elements of sequence q
Range(q) == {q[k] : k \in 1..Len(q)}

\* str.lower() on one character
LowerChar(c) ==
    IF c \in UpperSet
    THEN LowerChars[CHOOSE k \in 1..26 : UpperChars[k] = c]
    ELSE c

\* str.lower()
Lower(s) == [k \in 1..Len(s) |-> LowerChar(s[k])]

\* str.replace(old, new) for one-character old and new
ReplaceChar(s, old, new) == [k \in 1..Len(s) |-> IF s[k] = old THEN new ELSE s[k]]

\* str.strip(): the text from its first to its last non-whitespace character
Strip(s) ==
    IF \A k \in 1..Len(s) : s[k] \in Whitespace THEN <<>>
    ELSE LET first == CHOOSE k \in 1..Len(s) :
                         s[k] \notin Whitespace /\ \A j \in 1..(k - 1) : s[j] \in Whitespace
             last  == CHOOSE k \in 1..Len(s) :
                         s[k] \notin Whitespace
                         /\ \A j \in (k + 1)..Len(s) : s[j] \in Whitespace
         IN  SubSeq(s, first, last)

\* len(s.strip()) == 0
IsBlank(s) == Len(Strip(s)) = 0

\* sep.join(parts); the recursion halves parts, to stay shallow on long texts
RECURSIVE Join(_, _)
Join(parts, sep) ==
    IF parts = <<>> THEN <<>>
    ELSE IF Len(parts) = 1 THEN parts[1]
    ELSE LET mid == Len(parts) \div 2
         IN  Join(SubSeq(parts, 1, mid), sep) \o sep
                \o Join(SubSeq(parts, mid + 1, Len(parts)), sep)

\* the pieces of s[lo..hi] between single spaces, empty pieces kept; the
\* recursion halves the range
RECURSIVE SplitRange(_, _, _)
SplitRange(s, lo, hi) ==
    IF lo > hi THEN << <<>> >>
    ELSE IF lo = hi THEN (IF s[lo] = " " THEN << <<>>, <<>> >> ELSE << <<s[lo]>> >>)
    ELSE LET mid   == (lo + hi) \div 2
             left  == SplitRange(s, lo, mid)
             right == SplitRange(s, mid + 1, hi)
         IN  SubSeq(left, 1, Len(left) - 1)
                \o << left[Len(left)] \o right[1] >>
                \o Tail(right)

\* s.split(' ')
Split(s) == SplitRange(s, 1, Len(s))

\* all sequences over alphabet A of length at most n
SeqsUpTo(A, n) == UNION {[1..k -> A] : k \in 0..n}

----------------------------------------------------------------------------
(* Tag *)

\* TAG_RE = [^a-z0-9\-_\+\:\.]? with re.I: the characters the class lets through
TagPunct == {"-", "_", "+", ":", "."}
TAG_RE_Keeps(c) == c \in LowerSet \cup UpperSet \cup DigitChars \cup TagPunct

\* TAG_RE.sub('', name): every character the class matches is removed
TAG_RE_sub(name) == SelectSeq(name, TAG_RE_Keeps)

\* a plausible slip: the result is not lowercased
clean_NoLower(name) == Strip(TAG_RE_sub(ReplaceChar(name, " ", "-")))

\* Tag.clean
clean(name) == Strip(Lower(TAG_RE_sub(ReplaceChar(name, " ", "-"))))

\* Python's None where a text may stand: no text is made of this one element
None == <<"None">>

\* the values Python's "not v" holds of, among None and texts
Falsy(v) == v = None \/ v = <<>>

\* Tag(name=n)
TagNew(n) ==
    /\ tag' = [name |-> n, stored |-> None]
    /\ obs' = [op |-> "Tag", given |-> n]
    /\ UNCHANGED <<now, tagdb, db, db_tags, db_sites, inst, cache, calls, wrote, hist, flips>>

\* Tag.save: the name is cleaned, then the row is inserted or updated; the
\* unique constraint on name makes the write fail when another row has the name
TagSave ==
    LET given == tag.name
        name  == clean(given)
        others == IF tag.stored = None THEN tagdb ELSE tagdb \ {tag.stored}
        ok    == name \notin others
    IN  /\ tag' = [name |-> name, stored |-> IF ok THEN name ELSE tag.stored]
        /\ tagdb' = IF ok THEN others \cup {name} ELSE tagdb
        /\ db_tags' = IF ok /\ tag.stored # None
                      THEN [a \in DOMAIN db_tags |-> ReplaceChar(db_tags[a], tag.stored, name)]
                      ELSE db_tags
        /\ obs' = [op |-> "Tag.save", given |-> given, stored |-> ok]
        /\ UNCHANGED <<now, db, db_sites, inst, cache, calls, wrote, hist, flips>>

----------------------------------------------------------------------------
(* Article: fields, rendering, teaser *)

WORD_LIMIT == 75

MARKUP_HTML == "h"
MARKUP_MARKDOWN == "m"
MARKUP_REST == "r"
MARKUP_TEXTILE == "t"
MARKUP_DEFAULT == MARKUP_HTML

USE_ADDTHIS_BUTTON == TRUE
ADDTHIS_USE_AUTHOR == TRUE
DEFAULT_ADDTHIS_USER == None

\* the primary key of an instance that was never saved (self.id is None)
NoId == 0
\* a null expiration_date
NullDate == 0
\* Site.objects.get_current()
CurrentSite == "current"

P_OPEN == <<"<", "p", ">">>
P_CLOSE == <<"<", "/", "p", ">">>

\* markup.markdown, markup.restructuredtext, markup.textile: the converters of
\* django.contrib.markup, on one paragraph of plain text
markdown(content) ==
    IF IsBlank(content) THEN <<>> ELSE P_OPEN \o Strip(content) \o P_CLOSE
restructuredtext(content) ==
    IF IsBlank(content) THEN <<>> ELSE P_OPEN \o Strip(content) \o P_CLOSE \o <<"\n">>
textile(content) ==
    IF IsBlank(content) THEN <<>> ELSE <<"\t">> \o P_OPEN \o Strip(content) \o P_CLOSE

\* a plausible slip: the Textile branch is missing, Textile falls to the else
Render_NoTextile(markup, content) ==
    IF markup = MARKUP_MARKDOWN THEN markdown(content)
    ELSE IF markup = MARKUP_REST THEN restructuredtext(content)
    ELSE content

\* the if/elif chain at the head of Article.save
Render(markup, content) ==
    IF markup = MARKUP_MARKDOWN THEN markdown(content)
    ELSE IF markup = MARKUP_REST THEN restructuredtext(content)
    ELSE IF markup = MARKUP_TEXTILE THEN textile(content)
    ELSE content

\* the stored columns of an Article
Columns == {"keywords", "description", "markup", "content", "rendered_content",
            "publish_date", "expiration_date", "is_active", "use_addthis_button",
            "addthis_use_author", "addthis_username", "author"}

\* the row super(Article, self).save writes for instance a
Row(a) == [c \in Columns |-> a[c]]

\* Article(**kwargs) with the field defaults, then the end of __init__ for an
\* instance without id
NewArticle(author, content, markup, publish_date) ==
    [id |-> NoId, keywords |-> <<>>, description |-> <<>>, markup |-> markup,
     content |-> content, rendered_content |-> <<>>,
     publish_date |-> publish_date, expiration_date |-> NullDate,
     is_active |-> TRUE, use_addthis_button |-> USE_ADDTHIS_BUTTON,
     addthis_use_author |-> ADDTHIS_USE_AUTHOR,
     addthis_username |-> DEFAULT_ADDTHIS_USER, author |-> author,
     _next |-> NoId, _previous |-> NoId, _teaser |-> None]

\* a plausible slip: the limit is tested with >= and one word too few is kept
TeaserText_OffByOne(description, rendered_content) ==
    LET text  == IF ~IsBlank(description) THEN description ELSE rendered_content
        words == Split(text)
    IN  IF Len(words) >= WORD_LIMIT
        THEN Join(SubSeq(words, 1, WORD_LIMIT - 1), <<" ">>) \o <<".", ".", ".">>
        ELSE text

\* the text Article._get_teaser derives when nothing is cached
TeaserText(description, rendered_content) ==
    LET text  == IF ~IsBlank(description) THEN description ELSE rendered_content
        words == Split(text)
    IN  IF Len(words) > WORD_LIMIT
        THEN Join(SubSeq(words, 1, WORD_LIMIT), <<" ">>) \o <<".", ".", ".">>
        ELSE text

\* Article._get_teaser: the instance after the read (a._teaser is the value returned)
ReadTeaser(a) ==
    IF Falsy(a._teaser)
    THEN [a EXCEPT !._teaser = TeaserText(a.description, a.rendered_content)]
    ELSE a

----------------------------------------------------------------------------
(* Storage and the save/load lifecycle *)

\* the printable ASCII characters, in code order from 32 (code 96, which a
\* string literal cannot hold, is named)
Ascii == <<" ","!","\"","#","$","%","&","'","(",")","*","+",",","-",".","/",
           "0","1","2","3","4","5","6","7","8","9",":",";","<","=",">","?",
           "@","A","B","C","D","E","F","G","H","I","J","K","L","M","N","O",
           "P","Q","R","S","T","U","V","W","X","Y","Z","[","\\","]","^","_",
           "GRAVE","a","b","c","d","e","f","g","h","i","j","k","l","m","n","o",
           "p","q","r","s","t","u","v","w","x","y","z","{","|","}","~">>

\* ord(c)
OrdTable ==
    [c \in Whitespace \cup {Ascii[k] : k \in 1..Len(Ascii)} |->
        IF c = "\t" THEN 9
        ELSE IF c = "\n" THEN 10
        ELSE IF c = "\f" THEN 12
        ELSE IF c = "\r" THEN 13
        ELSE IF \E k \in 1..Len(RawSpaces) : RawSpaces[k] = c
        THEN RawCodes[CHOOSE k \in 1..Len(RawSpaces) : RawSpaces[k] = c]
        ELSE 31 + (CHOOSE k \in 1..Len(Ascii) : Ascii[k] = c)]
Ord(c) == OrdTable[c]

\* a < b for texts, as ORDER BY name compares them
RECURSIVE TextLess(_, _)
TextLess(a, b) ==
    IF b = <<>> THEN FALSE
    ELSE IF a = <<>> THEN TRUE
    ELSE IF Head(a) = Head(b) THEN TextLess(Tail(a), Tail(b))
    ELSE Ord(Head(a)) < Ord(Head(b))

\* a plausible slip: the tags come in the order they were attached
TagsAll_Unordered(attached) == attached

\* self.tags.all(): the attached tags under Tag.Meta.ordering = ('name',)
TagsAll(attached) == SortSeq(attached, TextLess)

\* ', '.join([t.name for t in self.tags.all()])
KeywordsFromTags(attached) == Join(TagsAll(attached), <<",", " ">>)

\* the id an INSERT gives (autoincrement; rows are never deleted)
NextId(D) == Cardinality(DOMAIN D) + 1

\* the storage refuses a row with no addthis_username: the column is a
\* CharField without null=True, and super(Article, self).save raises
\* IntegrityError
Refused(row) == row.addthis_username = None

\* super(Article, self).save: the row is written under id, unless refused
Put(D, id, row) == IF Refused(row) THEN D ELSE (id :> row) @@ D

\* Article.save, first part: the content is rendered
RenderContent(a) == [a EXCEPT !.rendered_content = Render(a.markup, a.content)]

\* Article.save: the AddThis username falls back to the author's
FillAddThis(a) ==
    IF a.use_addthis_button /\ a.addthis_use_author /\ Falsy(a.addthis_username)
    THEN [a EXCEPT !.addthis_username = a.author]
    ELSE a

\* the first super(Article, self).save gives a new instance its id, unless
\* the storage refuses the row
AssignId(a, D) ==
    IF a.id = NoId /\ ~Refused(Row(a)) THEN [a EXCEPT !.id = NextId(D)] ELSE a

\* Article.save: blank keywords are taken from the tags
FillKeywords(a, T) ==
    IF IsBlank(a.keywords)
    THEN [a EXCEPT !.keywords = KeywordsFromTags(T[a.id])]
    ELSE a

\* self.description = self.teaser, on the instance r the teaser was read from
DescribeByTeaser(r) == [r EXCEPT !.description = r._teaser]

\* Article.save: a blank description is taken from the teaser
FillDescription(a) ==
    IF IsBlank(a.description) THEN DescribeByTeaser(ReadTeaser(a)) ELSE a

\* requires_save, for the instance a as first written
RequiresSave(a, S) == IsBlank(a.keywords) \/ IsBlank(a.description) \/ S[a.id] = {}

\* Article.save, the end: the sites default to the current site and the
\* instance b, a with its derived fields filled, is written again if needed
SecondWrite(a, b, D, S) ==
    [a |-> b,
     db |-> IF RequiresSave(a, S) THEN Put(D, b.id, Row(b)) ELSE D,
     sites |-> IF S[a.id] = {} THEN [S EXCEPT ![a.id] = {CurrentSite}] ELSE S,
     writes |-> IF RequiresSave(a, S) THEN 2 ELSE 1,
     raised |-> FALSE]

\* Article.save from the first write on, for the instance a as it is written:
\* when the storage refuses the row, save raises and the rest does not run
FirstWrite(a, D, S, T) ==
    IF Refused(Row(a))
    THEN [a |-> a, db |-> Put(D, a.id, Row(a)), sites |-> S, writes |-> 0,
          raised |-> TRUE]
    ELSE SecondWrite(a, FillDescription(FillKeywords(a, T)), Put(D, a.id, Row(a)), S)

\* Article.save of instance a against stored rows D, site relation S and tag
\* relation T: the instance, rows and sites after it, how many times
\* super(Article, self).save wrote, and whether it raised
SaveResult(a, D, S, T) ==
    FirstWrite(AssignId(FillAddThis(RenderContent(a)), D), D, S, T)

\* the instance the ORM builds from a stored row, before the body of __init__
FromRow(id, row) ==
    [c \in Columns \cup {"id", "_next", "_previous", "_teaser"} |->
        IF c = "id" THEN id
        ELSE IF c \in {"_next", "_previous"} THEN NoId
        ELSE IF c = "_teaser" THEN None
        ELSE row[c]]

\* __init__'s test for an expired article that is still active
IsExpired(a, t) ==
    a.expiration_date # NullDate /\ a.expiration_date <= t /\ a.is_active

\* a plausible slip: the expired article is never deactivated
Expire_Never(a, t) == a

\* __init__: the expired, still active article is marked inactive
Expire(a, t) == IF IsExpired(a, t) THEN [a EXCEPT !.is_active = FALSE] ELSE a

\* __init__: an instance without rendered content is saved; r is the outcome
\* of __init__ so far
LoadRender(r, T) ==
    IF ~r.raised /\ r.a.id # NoId /\ (Falsy(r.a.rendered_content) \/ IsBlank(r.a.rendered_content))
    THEN [SaveResult(r.a, r.db, r.sites, T) EXCEPT !.writes = @ + r.writes]
    ELSE r

\* __init__: an expired, still active instance a0 is marked inactive and saved
LoadExpire(a0, D, S, T, t) ==
    IF a0.id # NoId /\ IsExpired(a0, t)
    THEN SaveResult(Expire(a0, t), D, S, T)
    ELSE [a |-> a0, db |-> D, sites |-> S, writes |-> 0, raised |-> FALSE]

\* whether the load marked the article inactive
WithFlipped(r, flipped) ==
    [a |-> r.a, db |-> r.db, sites |-> r.sites, writes |-> r.writes,
     raised |-> r.raised, flipped |-> flipped /\ ~r.raised]

\* Article.__init__ for row id of D at time t (a load from storage)
LoadResult(id, D, S, T, t) ==
    WithFlipped(LoadRender(LoadExpire(FromRow(id, D[id]), D, S, T, t), T),
                IsExpired(FromRow(id, D[id]), t))

----------------------------------------------------------------------------
(* Navigation queries *)

\* a plausible slip: the is_active filter is missing
ActiveIds_NoFlag(D, t) ==
    {id \in DOMAIN D :
        /\ D[id].expiration_date = NullDate \/ D[id].expiration_date >= t
        /\ D[id].publish_date <= t}

\* ArticleManager.active at time t: the ids of the rows the filter keeps
ActiveIds(D, t) ==
    {id \in DOMAIN D :
        /\ D[id].expiration_date = NullDate \/ D[id].expiration_date >= t
        /\ D[id].publish_date <= t
        /\ D[id].is_active}

\* get_next_article's query: the rows that can come first under
\* order_by('publish_date') (the order among equal dates is the storage's)
NextCandidates(a, D, t) ==
    LET qs == {b \in ActiveIds(D, t) \ {a.id} : D[b].publish_date >= a.publish_date}
    IN  {b \in qs : \A c \in qs : D[b].publish_date <= D[c].publish_date}

\* get_previous_article's query, under order_by('-publish_date')
PreviousCandidates(a, D, t) ==
    LET qs == {b \in ActiveIds(D, t) \ {a.id} : D[b].publish_date <= a.publish_date}
    IN  {b \in qs : \A c \in qs : D[b].publish_date >= D[c].publish_date}

----------------------------------------------------------------------------
(* Operations on Article instances *)

\* nothing read yet from a fresh instance
NewHist ==
    [teaser_first |-> <<>>, next_first |-> <<>>, previous_first |-> <<>>]

\* Article(author=..., content=..., markup=...): a new unsaved instance in slot i
Create(i, author, content, markup) ==
    /\ inst' = (i :> NewArticle(author, content, markup, now)) @@ inst
    /\ hist' = (i :> NewHist) @@ hist
    /\ obs' = [op |-> "create", inst |-> i]
    /\ UNCHANGED <<now, tag, tagdb, db, db_tags, db_sites, cache, calls, wrote, flips>>

\* instance.<field> = value
SetField(i, field, value) ==
    /\ i \in DOMAIN inst
    /\ inst[i][field] # value
    /\ inst' = [inst EXCEPT ![i][field] = value]
    /\ obs' = [op |-> "set", inst |-> i]
    /\ UNCHANGED <<now, tag, tagdb, db, db_tags, db_sites, cache, calls, wrote, hist, flips>>

\* instance.save()
Save(i) ==
    /\ i \in DOMAIN inst
    /\ LET a == inst[i]
           r == SaveResult(a, db, db_sites, db_tags)
       IN  /\ a.id # NoId \/ NextId(db) \in DOMAIN db_tags
           /\ inst' = [inst EXCEPT ![i] = r.a]
           /\ db' = r.db
           /\ db_sites' = r.sites
           /\ obs' = IF r.raised
                     THEN [op |-> "save raised", inst |-> i, writes |-> r.writes]
                     ELSE [op |-> "save", inst |-> i, content |-> a.content,
                           markup |-> a.markup, no_keywords |-> IsBlank(a.keywords),
                           no_description |-> IsBlank(a.description),
                           writes |-> r.writes]
           /\ flips' = IF ~r.raised /\ r.a.is_active /\ flips[r.a.id] = "flipped"
                       THEN [flips EXCEPT ![r.a.id] = "reactivated"]
                       ELSE flips
    /\ UNCHANGED <<now, tag, tagdb, db_tags, cache, calls, wrote, hist>>

\* Article.objects.get(id=id): a new instance in slot i, built from the stored row
Load(i, id) ==
    /\ id \in DOMAIN db
    /\ LET r == LoadResult(id, db, db_sites, db_tags, now)
       IN  /\ inst' = IF r.raised THEN inst ELSE (i :> r.a) @@ inst
           /\ hist' = IF r.raised THEN hist ELSE (i :> NewHist) @@ hist
           /\ db' = r.db
           /\ db_sites' = r.sites
           /\ flips' = IF r.flipped THEN [flips EXCEPT ![id] = "flipped"] ELSE flips
           /\ obs' = IF r.raised
                     THEN [op |-> "load raised", inst |-> i, id |-> id,
                           writes |-> r.writes]
                     ELSE [op |-> "load", inst |-> i, id |-> id,
                           was_active |-> db[id].is_active,
                           expiration_date |-> db[id].expiration_date,
                           flipped |-> r.flipped, before |-> flips[id],
                           writes |-> r.writes]
    /\ UNCHANGED <<now, tag, tagdb, db_tags, cache, calls, wrote>>

\* instance.tags.add(tag), for a saved instance and the saved Tag
AttachTag(i) ==
    /\ i \in DOMAIN inst
    /\ inst[i].id # NoId
    /\ tag.stored # None
    /\ \A k \in 1..Len(db_tags[inst[i].id]) : db_tags[inst[i].id][k] # tag.stored
    /\ db_tags' = [db_tags EXCEPT ![inst[i].id] = Append(@, tag.stored)]
    /\ obs' = [op |-> "tags.add", inst |-> i]
    /\ UNCHANGED <<now, tag, tagdb, db, db_sites, inst, cache, calls, wrote, hist, flips>>

\* instance.teaser
Teaser(i) ==
    /\ i \in DOMAIN inst
    /\ LET a == inst[i]
           r == ReadTeaser(a)
           derived == Falsy(a._teaser)
           h == hist[i]
       IN  /\ inst' = [inst EXCEPT ![i] = r]
           /\ hist' = [hist EXCEPT ![i] =
                 [h EXCEPT !.teaser_first = IF @ = <<>> THEN <<r._teaser>> ELSE @]]
           /\ obs' = [op |-> "teaser", inst |-> i, ret |-> r._teaser,
                      derived |-> derived, first |-> h.teaser_first = <<>>]
    /\ UNCHANGED <<now, tag, tagdb, db, db_tags, db_sites, cache, calls, wrote, flips>>

\* the clock moves on by d seconds
Tick(d) ==
    /\ now' = now + d
    /\ obs' = [op |-> "tick"]
    /\ UNCHANGED <<tag, tagdb, db, db_tags, db_sites, inst, cache, calls, wrote, hist, flips>>

\* instance.get_next_article()
GetNext(i) ==
    /\ i \in DOMAIN inst
    /\ LET a == inst[i]
           queried == a._next = NoId
           found == IF queried THEN NextCandidates(a, db, now) ELSE {a._next}
           h == hist[i]
       IN  \E b \in (IF found = {} THEN {NoId} ELSE found) :
             LET r == IF queried /\ b # NoId
                      THEN LoadResult(b, db, db_sites, db_tags, now)
                      ELSE [db |-> db, sites |-> db_sites, flipped |-> FALSE]
             IN  /\ inst' = [inst EXCEPT ![i]._next = b]
                 /\ db' = r.db
                 /\ db_sites' = r.sites
                 /\ flips' = IF r.flipped THEN [flips EXCEPT ![b] = "flipped"] ELSE flips
                 /\ hist' = [hist EXCEPT ![i] =
                       [h EXCEPT !.next_first = IF @ = <<>> THEN <<b>> ELSE @]]
                 /\ obs' = [op |-> "next", inst |-> i, ret |-> b]
    /\ UNCHANGED <<now, tag, tagdb, db_tags, cache, calls, wrote>>

\* instance.get_previous_article()
GetPrevious(i) ==
    /\ i \in DOMAIN inst
    /\ LET a == inst[i]
           queried == a._previous = NoId
           found == IF queried THEN PreviousCandidates(a, db, now) ELSE {a._previous}
           h == hist[i]
       IN  \E b \in (IF found = {} THEN {NoId} ELSE found) :
             LET r == IF queried /\ b # NoId
                      THEN LoadResult(b, db, db_sites, db_tags, now)
                      ELSE [db |-> db, sites |-> db_sites, flipped |-> FALSE]
             IN  /\ inst' = [inst EXCEPT ![i]._previous = b]
                 /\ db' = r.db
                 /\ db_sites' = r.sites
                 /\ flips' = IF r.flipped THEN [flips EXCEPT ![b] = "flipped"] ELSE flips
                 /\ hist' = [hist EXCEPT ![i] =
                       [h EXCEPT !.previous_first = IF @ = <<>> THEN <<b>> ELSE @]]
                 /\ obs' = [op |-> "previous", inst |-> i, ret |-> b]
    /\ UNCHANGED <<now, tag, tagdb, db_tags, cache, calls, wrote>>

----------------------------------------------------------------------------
(* Initial values *)

\* how many articles the storage holds at most
MaxArticles == 1
ArticleIds == 1..MaxArticles

InitClock == now = 1
InitTags == tag = [name |-> <<>>, stored |-> None] /\ tagdb = {}
InitStorage ==
    /\ db = <<>>
    /\ db_tags = [id \in ArticleIds |-> <<>>]
    /\ db_sites = [id \in ArticleIds |-> {}]
InitInstances == inst = <<>> /\ hist = <<>> /\ flips = [id \in ArticleIds |-> "never"]
InitCache == cache = <<>>
InitCalls == calls = <<>>
InitWrote == wrote = <<>>
InitObs == obs = [op |-> "init"]

----------------------------------------------------------------------------
(* Tag names: Tag(name=n).save() for every short name n *)

\* the longest tag name tried
MaxTagLen == 3

TagAlphabet == {"a", "Z", "7", "-", "_", "+", ":", ".", " ", "\t", "\r", VT, "!", "/"}
TagInputs == SeqsUpTo(TagAlphabet, MaxTagLen)

InitTag ==
    /\ tag \in {[name |-> n, stored |-> None] : n \in TagInputs}
    /\ tagdb = {}
    /\ InitClock /\ InitStorage /\ InitInstances /\ InitCache /\ InitCalls /\ InitWrote /\ InitObs

NextTag == TagSave

SpecTag == InitTag /\ [][NextTag]_vars

TagChars == LowerSet \cup DigitChars \cup TagPunct

\* C6: Tag.clean(n) holds only lowercase letters, digits and - _ + : . ; it is
\* idempotent; Tag.clean('') is ''; and Tag.save leaves, in memory and in
\* storage, the cleaned form of the name it was given, so every stored name
\* is a fixed point of Tag.clean
C6_CleanIsNormalForm ==
    /\ clean(<<>>) = <<>>
    /\ \A k \in 1..Len(clean(tag.name)) : clean(tag.name)[k] \in TagChars
    /\ clean(clean(tag.name)) = clean(tag.name)
    /\ obs.op = "Tag.save" =>
          /\ tag.name = clean(obs.given)
          /\ obs.stored => tag.stored = clean(obs.given)
          /\ \A k \in 1..Len(tag.name) : tag.name[k] \in TagChars
    /\ \A n \in tagdb : clean(n) = n /\ \A k \in 1..Len(n) : n[k] \in TagChars

\* C6 witness: a name with an uppercase letter, a space and a disallowed
\* character was saved, and the stored name differs from it
C6_Witness ==
    /\ obs.op = "Tag.save"
    /\ obs.given = <<"Z", " ", "!">>
    /\ tag.stored = <<"z", "-">>
    /\ tagdb = {<<"z", "-">>}

----------------------------------------------------------------------------
(* The teaser of a fresh instance, for texts around WORD_LIMIT words *)

\* how many short words lead a text
MaxLead == 2

\* n times the word w
Rep(w, n) == [k \in 1..n |-> w]

LeadWords == {<<>>, <<"a">>, <<"b", ".">>}
WordCounts == {0} \cup ((WORD_LIMIT - 2)..(WORD_LIMIT + 1))

\* texts of up to MaxLead short words (empty ones too, from doubled spaces)
\* followed by 0 or about WORD_LIMIT more words
TeaserTexts ==
    {Join(lead \o Rep(<<"w">>, n), <<" ">>) :
        lead \in SeqsUpTo(LeadWords, MaxLead), n \in WordCounts}

TeaserDescriptions ==
    {<<>>, <<" ">>, <<"\t", " ">>, <<"\r", "\n">>, <<"\f", VT>>, <<"d">>,
     <<" ", "d", " ", "e">>, <<VT, "d", "\f">>,
     Join(Rep(<<"d">>, WORD_LIMIT), <<" ">>),
     Join(Rep(<<"d">>, WORD_LIMIT + 1), <<" ">>)}

InitTeaser ==
    /\ inst \in {(1 :> [NewArticle(<<"b", "o", "b">>, <<>>, MARKUP_HTML, 1)
                          EXCEPT !.description = d, !.rendered_content = t]) :
                    d \in TeaserDescriptions, t \in TeaserTexts}
    /\ hist = (1 :> NewHist)
    /\ flips = [id \in ArticleIds |-> "never"]
    /\ InitClock /\ InitTags /\ InitStorage /\ InitCache /\ InitCalls /\ InitWrote /\ InitObs

NextTeaser == Teaser(1)

SpecTeaser == InitTeaser /\ [][NextTeaser]_vars

\* the number of spaces in s
Spaces(s) == Cardinality({k \in 1..Len(s) : s[k] = " "})

\* the position of the n-th space of s
NthSpace(s, n) ==
    CHOOSE p \in 1..Len(s) :
        s[p] = " " /\ Cardinality({q \in 1..p : s[q] = " "}) = n

\* the text the teaser is taken from
ChosenText(a) ==
    IF \E k \in 1..Len(a.description) : a.description[k] \notin Whitespace
    THEN a.description
    ELSE a.rendered_content

\* C7: the teaser is taken from description when that is not blank, else from
\* rendered_content; a text of at most WORD_LIMIT space-separated tokens is
\* returned unchanged, a longer one is cut before its WORD_LIMIT-th space and
\* '...' is appended
C7_TeaserCutsAtWordLimit ==
    \A i \in DOMAIN inst :
        (obs.op = "teaser" /\ obs.inst = i /\ obs.derived) =>
            LET text == ChosenText(inst[i])
            IN  IF Spaces(text) + 1 <= WORD_LIMIT
                THEN inst[i]._teaser = text
                ELSE inst[i]._teaser =
                        SubSeq(text, 1, NthSpace(text, WORD_LIMIT) - 1)
                            \o <<".", ".", ".">>

\* C7 witness: a text of WORD_LIMIT + 1 tokens was cut to its first
\* WORD_LIMIT tokens plus '...'
C7_Witness ==
    /\ obs.op = "teaser" /\ obs.derived
    /\ inst[1].description = <<" ">>
    /\ inst[1].rendered_content = Join(Rep(<<"w">>, WORD_LIMIT + 1), <<" ">>)
    /\ inst[1]._teaser = Join(Rep(<<"w">>, WORD_LIMIT), <<" ">>) \o <<".", ".", ".">>

----------------------------------------------------------------------------
(* The save/load lifecycle: instances are created, edited, saved and loaded
   while the clock runs *)

\* the last second of the clock
MaxTime == 3

Author == <<"b", "o", "b">>
Contents == {<<" ">>, <<"x", " ", "y">>}
Markups == {MARKUP_HTML, MARKUP_MARKDOWN, MARKUP_REST, MARKUP_TEXTILE, "x"}
Dates == 1..MaxTime

Init ==
    /\ InitClock /\ InitTags /\ InitStorage /\ InitInstances /\ InitCache /\ InitCalls /\ InitWrote /\ InitObs

\* rendering: content and markup are edited between saves and loads
Next ==
    \/ Create(1, Author, <<>>, MARKUP_DEFAULT)
    \/ \E c \in Contents : SetField(1, "content", c)
    \/ \E m \in Markups : SetField(1, "markup", m)
    \/ Save(1)
    \/ \E id \in ArticleIds : Load(1, id)

Spec == Init /\ [][Next]_vars

\* what Article.save is to leave in rendered_content
Rendered(markup, content) ==
    CASE markup = MARKUP_MARKDOWN -> markdown(content)
      [] markup = MARKUP_REST -> restructuredtext(content)
      [] markup = MARKUP_TEXTILE -> textile(content)
      [] OTHER -> content

\* C1: right after a save, rendered_content, in memory and in storage, is the
\* rendering of the content and markup the instance had when save was called:
\* the converter's output for Markdown, ReStructuredText and Textile, the
\* content itself for any other markup; so too after a save made by a load
C1_SaveRenders ==
    /\ obs.op = "save" =>
          /\ inst[obs.inst].rendered_content = Rendered(obs.markup, obs.content)
          /\ db[inst[obs.inst].id].rendered_content = Rendered(obs.markup, obs.content)
    /\ (obs.op = "load" /\ obs.writes > 0) =>
          inst[obs.inst].rendered_content
              = Rendered(inst[obs.inst].markup, inst[obs.inst].content)

\* C1 witness: a save rendered the content 'x y' as Textile, in memory and
\* in storage
C1_Witness ==
    /\ obs.op = "save"
    /\ obs.markup = MARKUP_TEXTILE
    /\ obs.content = <<"x", " ", "y">>
    /\ inst[obs.inst].rendered_content
          = <<"\t", "<", "p", ">", "x", " ", "y", "<", "/", "p", ">">>
    /\ db[inst[obs.inst].id].rendered_content = inst[obs.inst].rendered_content

\* expiry: the active flag and the expiration date are edited between saves
\* and loads while the clock runs
ExpirationDates == {NullDate, 2}

NextExpire ==
    \/ Create(1, Author, <<"x", " ", "y">>, MARKUP_HTML)
    \/ \E b \in BOOLEAN : SetField(1, "is_active", b)
    \/ \E e \in ExpirationDates : SetField(1, "expiration_date", e)
    \/ Save(1)
    \/ \E id \in ArticleIds : Load(1, id)
    \/ now < MaxTime /\ Tick(1)

SpecExpire == Init /\ [][NextExpire]_vars

\* C2 as stated: once a load has marked an article inactive, no later load
\* of it, made after its expiration date, finds it active and flips it again
C2_FlipsExactlyOnce ==
    (obs.op = "load" /\ obs.expiration_date # NullDate /\ obs.expiration_date < now
        /\ obs.before # "never")
      => ~obs.was_active /\ ~obs.flipped

\* C2, amended: a load of a stored article that is active and whose
\* expiration_date is set and earlier than now leaves is_active false in
\* memory and in storage; a load flips only such an article (never one whose
\* expiration_date is unset or in the future); and a later load flips the
\* article again only if a save has stored it active in between
C2_LoadExpiresUntilReactivated ==
    obs.op = "load" =>
        /\ (obs.was_active /\ obs.expiration_date # NullDate
                /\ obs.expiration_date < now)
              => /\ obs.flipped
                 /\ ~inst[obs.inst].is_active
                 /\ ~db[obs.id].is_active
        /\ (obs.expiration_date = NullDate \/ obs.expiration_date > now)
              => /\ ~obs.flipped
                 /\ inst[obs.inst].is_active = obs.was_active
                 /\ db[obs.id].is_active = obs.was_active
        /\ obs.flipped => obs.was_active /\ obs.before # "flipped"
        /\ (obs.before = "flipped" /\ ~obs.flipped) => ~obs.was_active

\* C2 witness: an article that an earlier load had marked inactive is loaded
\* again after its expiration date and is found inactive, without a flip
C2_Witness ==
    /\ obs.op = "load"
    /\ obs.before = "flipped"
    /\ ~obs.flipped
    /\ obs.expiration_date # NullDate /\ obs.expiration_date < now
    /\ ~inst[obs.inst].is_active
    /\ ~db[obs.id].is_active

----------------------------------------------------------------------------
(* The cached teaser: the teaser is read between edits and saves, some of
   which the storage refuses *)

TeaserEdits == {<<>>, <<"\r", VT>>, <<"d">>}

NextTeaserCache ==
    \/ \E c \in {<<>>, <<"x", " ", "y">>} : Create(1, Author, c, MARKUP_HTML)
    \/ \E d \in TeaserEdits : SetField(1, "description", d)
    \/ \E c \in {<<>>, <<"x", " ", "y">>} : SetField(1, "content", c)
    \/ \E t \in {<<>>, <<"z">>} : SetField(1, "rendered_content", t)
    \/ \E b \in BOOLEAN : SetField(1, "addthis_use_author", b)
    \/ Save(1)
    \/ \E id \in ArticleIds : Load(1, id)
    \/ Teaser(1)

SpecTeaserCache == Init /\ [][NextTeaserCache]_vars

\* C9 as stated: on one instance every teaser read after the first returns
\* what the first read returned, whatever that was
C9_TeaserComputedOnce ==
    obs.op = "teaser" => hist[obs.inst].teaser_first = <<obs.ret>>

----------------------------------------------------------------------------
(* Navigation: stored articles with various publish dates, flags and
   expiration dates; an instance asks for its neighbours as the clock runs *)

\* how many articles are stored
MaxNavArticles == 3
NavIds == 1..MaxNavArticles

\* the row a first save leaves for a new article with these fields
StoredArticle(publish_date, is_active, expiration_date) ==
    Row(SaveResult([NewArticle(Author, <<"x", " ", "y">>, MARKUP_HTML, publish_date)
                        EXCEPT !.is_active = is_active,
                               !.expiration_date = expiration_date],
                   <<>>, <<{}>>, << <<>> >>).a)

\* publish dates in the order the articles were stored
NavDates == {p \in [NavIds -> Dates] : \A j \in NavIds \ {1} : p[j - 1] <= p[j]}

\* no article expires, or one does, a second before the clock stops
NavExpirations ==
    {[id \in NavIds |-> IF id = x THEN MaxTime - 1 ELSE NullDate] : x \in NavIds \cup {NoId}}

\* every article is flagged active, or all but one
NavFlags == {[id \in NavIds |-> id # x] : x \in NavIds \cup {NoId}}

InitNav ==
    /\ InitClock /\ InitTags /\ InitCache /\ InitCalls /\ InitWrote /\ InitObs
    /\ inst = <<>> /\ hist = <<>>
    /\ flips = [id \in NavIds |-> "never"]
    /\ db_tags = [id \in NavIds |-> <<>>]
    /\ db_sites = [id \in NavIds |-> {CurrentSite}]
    /\ \E p \in NavDates, act \in NavFlags, e \in NavExpirations :
            db = [id \in NavIds |-> StoredArticle(p[id], act[id], e[id])]

NextNav ==
    \/ \E id \in NavIds : Load(1, id)
    \/ GetNext(1)
    \/ GetPrevious(1)
    \/ now < MaxTime /\ Tick(1)

SpecNav == InitNav /\ [][NextNav]_vars

\* article c of rows D counts for the neighbour query of instance a at time t:
\* another article, active, published, not expired
Eligible(c, a, D, t) ==
    /\ c \in DOMAIN D /\ c # a.id
    /\ D[c].is_active
    /\ D[c].publish_date <= t
    /\ D[c].expiration_date = NullDate \/ D[c].expiration_date >= t

\* C4: the first get_next_article() of an instance returns another article
\* that is active when the query runs and has the smallest publish_date that
\* is >= the instance's, and none exactly when there is no such article;
\* get_previous_article() likewise with the largest publish_date <= its own
C4_FirstCallFindsNearestActive ==
    [][/\ (obs'.op = "next" /\ hist[obs'.inst].next_first = <<>>) =>
            LET a == inst[obs'.inst]
                b == obs'.ret
                after == {c \in DOMAIN db : Eligible(c, a, db, now)
                                            /\ db[c].publish_date >= a.publish_date}
            IN  IF after = {} THEN b = NoId
                ELSE b \in after
                     /\ \A c \in after : db[b].publish_date <= db[c].publish_date
       /\ (obs'.op = "previous" /\ hist[obs'.inst].previous_first = <<>>) =>
            LET a == inst[obs'.inst]
                b == obs'.ret
                before == {c \in DOMAIN db : Eligible(c, a, db, now)
                                             /\ db[c].publish_date <= a.publish_date}
            IN  IF before = {} THEN b = NoId
                ELSE b \in before
                     /\ \A c \in before : db[b].publish_date >= db[c].publish_date
      ]_vars

\* C4 witness: the first get_next_article() skipped an inactive article
\* published between the instance and the article returned
C4_Witness ==
    /\ obs.op = "next" /\ obs.ret # NoId
    /\ hist[obs.inst].next_first = <<obs.ret>>
    /\ \E c \in DOMAIN db :
          /\ ~db[c].is_active
          /\ inst[obs.inst].publish_date < db[c].publish_date
          /\ db[c].publish_date < db[obs.ret].publish_date

\* C8 as stated: every later call of get_next_article and of
\* get_previous_article on an instance returns what its first call returned,
\* also when that was none
C8_NeighboursMemoized ==
    /\ obs.op = "next" => hist[obs.inst].next_first = <<obs.ret>>
    /\ obs.op = "previous" => hist[obs.inst].previous_first = <<obs.ret>>

----------------------------------------------------------------------------
(* Keywords: tags are created and attached to a stored article in any order,
   and the article is saved with blank keywords *)

GO == <<"g", "o">>
RUST == <<"r", "u", "s", "t">>
TagNames == {GO, RUST, <<"G", "o">>}

NextKeywords ==
    \/ \E n \in TagNames : TagNew(n)
    \/ TagSave
    \/ Create(1, Author, <<"x", " ", "y">>, MARKUP_HTML)
    \/ Save(1)
    \/ AttachTag(1)
    \/ \E k \in {<<>>, <<"\r", VT>>} : SetField(1, "keywords", k)
    \/ \E id \in ArticleIds : Load(1, id)

SpecKeywords == Init /\ [][NextKeywords]_vars

\* C5 as stated: a save with blank keywords sets keywords to the tag names
\* joined by ', ' in the order the tags were attached
C5_KeywordsInAttachOrder ==
    (obs.op = "save" /\ obs.no_keywords) =>
        inst[obs.inst].keywords = Join(db_tags[inst[obs.inst].id], <<",", " ">>)

\* C5, amended: a save with blank keywords sets keywords, in memory and in
\* storage, to the names of the attached tags joined by ', ' in ascending
\* order of name, whatever the order they were attached in
C5_KeywordsInNameOrder ==
    (obs.op = "save" /\ obs.no_keywords) =>
        \E q \in [1..Len(db_tags[inst[obs.inst].id]) -> Range(db_tags[inst[obs.inst].id])] :
            /\ Range(q) = Range(db_tags[inst[obs.inst].id])
            /\ \A j, k \in 1..Len(q) : j < k => TextLess(q[j], q[k])
            /\ inst[obs.inst].keywords = Join(q, <<",", " ">>)
            /\ db[inst[obs.inst].id].keywords = Join(q, <<",", " ">>)

\* C5 witness: rust was attached before go, and the save set 'go, rust'
C5_Witness ==
    /\ obs.op = "save" /\ obs.no_keywords
    /\ db_tags[inst[obs.inst].id] = <<RUST, GO>>
    /\ inst[obs.inst].keywords = <<"g", "o", ",", " ", "r", "u", "s", "t">>

----------------------------------------------------------------------------
(* Links: the (url, title) pairs of the anchors in the rendered content,
   titles looked up in the shared cache and fetched when not found there *)

\* the literal s starts at position p of text t, ignoring case (re.I)
MatchAt(t, p, s) ==
    /\ p >= 1
    /\ p + Len(s) - 1 <= Len(t)
    /\ \A k \in 1..Len(s) : LowerChar(t[p + k - 1]) = s[k]

\* the first position >= from where the literal s starts in t, 0 when none
Find(t, from, s) ==
    LET starts == {p \in from..Len(t) : MatchAt(t, p, s)}
    IN  IF starts = {} THEN 0
        ELSE CHOOSE p \in starts : \A r \in starts : p <= r

\* '.' matches every character of t[a..b-1]: none is a newline
Dots(t, a, b) == \A k \in a..(b - 1) : t[k] # "\n"

LIT_A == <<"<", "a">>
LIT_HREF == <<"h", "r", "e", "f", "=", "\"">>
LIT_QUOTE == <<"\"">>
LIT_GT == <<">">>
LIT_A_END == <<"<", "/", "a", ">">>
NoMatch == [ok |-> FALSE]

\* LINK_RE tried at position p, where '<a' starts: each lazy '.*?' stops at
\* the first place the next literal starts, and cannot cross a newline.
\* h, q, g and e are where 'href="', the closing quote, '>' and '</a>' start
LinkClosed(t, h, q, g, e) ==
    IF e = 0 \/ ~Dots(t, g + 1, e) THEN NoMatch
    ELSE [ok |-> TRUE, url |-> SubSeq(t, h + 6, q - 1),
          text |-> SubSeq(t, g + 1, e - 1), end |-> e + 4]

LinkOpened(t, h, q, g) ==
    IF g = 0 \/ ~Dots(t, q + 1, g) THEN NoMatch
    ELSE LinkClosed(t, h, q, g, Find(t, g + 1, LIT_A_END))

LinkQuoted(t, h, q) ==
    IF q = 0 \/ ~Dots(t, h + 6, q) THEN NoMatch
    ELSE LinkOpened(t, h, q, Find(t, q + 1, LIT_GT))

LinkHref(t, p, h) ==
    IF h = 0 \/ ~Dots(t, p + 2, h) THEN NoMatch
    ELSE LinkQuoted(t, h, Find(t, h + 6, LIT_QUOTE))

LINK_RE_match(t, p) == LinkHref(t, p, Find(t, p + 2, LIT_HREF))

\* LINK_RE.finditer(t) from position from: the matches, left to right,
\* none overlapping another
RECURSIVE LINK_RE_finditer(_, _)

\* m is what LINK_RE matches at p: the search goes on after the match, or
\* from the next position when there is none
LinkTried(t, p, m) ==
    IF m.ok THEN <<m>> \o LINK_RE_finditer(t, m.end)
    ELSE LINK_RE_finditer(t, p + 1)

\* p is where the next '<a' starts, 0 when there is none
LinkStart(t, p) == IF p = 0 THEN <<>> ELSE LinkTried(t, p, LINK_RE_match(t, p))

LINK_RE_finditer(t, from) == LinkStart(t, Find(t, from, LIT_A))

LIT_TITLE == <<"<", "t", "i", "t", "l", "e", ">">>
LIT_TITLE_END == <<"<", "/", "t", "i", "t", "l", "e", ">">>

\* TITLE_RE tried at position p, where '<title>' starts; e is where the
\* next '</title>' starts
TitleClosed(html, p, e) ==
    IF e = 0 \/ ~Dots(html, p + 7, e) THEN NoMatch
    ELSE [ok |-> TRUE, title |-> SubSeq(html, p + 7, e - 1)]

TITLE_RE_match(html, p) == TitleClosed(html, p, Find(html, p + 7, LIT_TITLE_END))

\* TITLE_RE.search(html): the leftmost match
RECURSIVE TITLE_RE_search(_, _)

TitleTried(html, p, m) == IF m.ok THEN m ELSE TITLE_RE_search(html, p + 1)

TitleStart(html, p) ==
    IF p = 0 THEN NoMatch ELSE TitleTried(html, p, TITLE_RE_match(html, p))

TITLE_RE_search(html, from) == TitleStart(html, Find(html, from, LIT_TITLE))

\* the base64 alphabet, value v at index v + 1
B64Chars == <<"A","B","C","D","E","F","G","H","I","J","K","L","M","N","O","P",
              "Q","R","S","T","U","V","W","X","Y","Z","a","b","c","d","e","f",
              "g","h","i","j","k","l","m","n","o","p","q","r","s","t","u","v",
              "w","x","y","z","0","1","2","3","4","5","6","7","8","9","+","/">>

\* what the implicit ASCII encoding of a unicode text raises when the text
\* holds a character of code above 127
UnicodeEncodeError == <<"UnicodeEncodeError">>

\* the text can be encoded as ASCII
Encodable(t) == \A k \in 1..Len(t) : Ord(t[k]) < 128

\* the bytes of an encodable text
Encoded(t) == [k \in 1..Len(t) |-> Ord(t[k])]

\* byte k of the bytes b, 0 past their end
ByteAt(b, k) == IF k <= Len(b) THEN b[k] ELSE 0

\* the 24 bits of the g-th group of three of the bytes b (g from 0)
Group24(b, g) ==
    ByteAt(b, 3 * g + 1) * 65536 + ByteAt(b, 3 * g + 2) * 256 + ByteAt(b, 3 * g + 3)

\* character j of the base64 text of the bytes b: '=' where the group has no
\* byte left
B64At(b, j) ==
    IF 3 * ((j - 1) \div 4) + ((j - 1) % 4) > Len(b) THEN "="
    ELSE B64Chars[((Group24(b, (j - 1) \div 4) \div (64 ^ (3 - ((j - 1) % 4)))) % 64) + 1]

\* one line of base64 for the bytes b and its newline
B64Line(b) == [j \in 1..(4 * ((Len(b) + 2) \div 3)) |-> B64At(b, j)] \o <<"\n">>

\* binascii.b2a_base64(t) for a unicode text t: raises unless t is ASCII
b2a_base64(t) == IF Encodable(t) THEN B64Line(Encoded(t)) ELSE UnicodeEncodeError

\* the lines of base64.encodestring(t): one for every 57 characters of t
MAXBINSIZE == 57
B64Lines(t) ==
    [k \in 1..((Len(t) + MAXBINSIZE - 1) \div MAXBINSIZE) |->
        b2a_base64(SubSeq(t, MAXBINSIZE * (k - 1) + 1,
                          IF MAXBINSIZE * k < Len(t) THEN MAXBINSIZE * k ELSE Len(t)))]

\* base64.encodestring(t): raises when a line does
encodestring(t) ==
    IF Encodable(t) THEN Join(B64Lines(t), <<>>) ELSE UnicodeEncodeError

\* the cache key of a link target; the encoding of the URL may raise
CacheKey(url) ==
    IF Encodable(url)
    THEN <<"h","r","e","f","_","t","i","t","l","e","_">> \o Strip(encodestring(url))
    ELSE UnicodeEncodeError

\* the seconds a title is cached for
CACHE_TTL == 604800

\* cache.get(key) at time t: the value stored, None when none or expired
CacheGet(C, key, t) ==
    IF key \in DOMAIN C /\ C[key].expires > t THEN C[key].value ELSE None

\* cache.set(key, value, timeout) at time t
CacheSet(C, key, value, timeout, t) ==
    (key :> [value |-> value, expires |-> t + timeout]) @@ C

\* what urllib.urlopen(url).read() does: raises, or returns the page
UrlError == [error |-> TRUE, html |-> <<>>]
Page(html) == [error |-> FALSE, html |-> html]

\* the title of match m when the fetch did out: the page's title, the
\* anchor's text when the page has none or the fetch raised
\* a plausible slip: the page's title is never used
FetchTitle_AnchorOnly(m, out) == m.text

PageTitle(m, title) == IF title.ok THEN title.title ELSE m.text

FetchTitle(m, out) ==
    IF out.error THEN m.text ELSE PageTitle(m, TITLE_RE_search(out.html, 1))

\* the loop body from "val = cache.get(key)": keep the link when "if val"
LinkCollect(st, m, val) ==
    IF Falsy(val) THEN st
    ELSE [st EXCEPT !.links = (m.url :> val) @@ @,
                    !.keys = IF \E k \in 1..Len(@) : @[k] = m.url THEN @
                             ELSE Append(@, m.url)]

\* the tuple of (url, title) pairs returned
Sorted(st) == [k \in 1..Len(st.keys) |-> <<st.keys[k], st.links[st.keys[k]]>>]

\* the keys cache C holds an entry for at time t
Live(C, t) == {key \in DOMAIN C : C[key].expires > t}

\* instance.links is entered: the matches of LINK_RE in rendered_content
\* are taken one after the other, k being the one the loop is at; src keeps,
\* for each link collected, what wrote says of the entry its title was read
\* from
LinksBegin(i) ==
    /\ i \in DOMAIN inst
    /\ i \notin DOMAIN calls
    /\ calls' = (i :> [ms |-> LINK_RE_finditer(inst[i].rendered_content, 1),
                       k |-> 1, pc |-> "get", links |-> <<>>, keys |-> <<>>,
                       fetched |-> <<>>, failed |-> TRUE, refetched |-> {},
                       cold |-> Live(cache, now) = {}, src |-> <<>>]) @@ calls
    /\ obs' = [op |-> "links.begin", inst |-> i]
    /\ UNCHANGED <<now, tag, tagdb, db, db_tags, db_sites, inst, cache, wrote, hist, flips>>

\* the evaluation of instance i with call record c
Running(i, c) == [j \in DOMAIN calls |-> IF j = i THEN c ELSE calls[j]]

\* what instance.links is observed to have done when it ends with call
\* record c, returning or raising
Ended(i, c, raised) ==
    [op |-> "links", inst |-> i, raised |-> raised,
     ret |-> IF raised THEN <<>> ELSE Sorted(c),
     fetched |-> c.fetched, all_failed |-> c.failed,
     refetched |-> c.refetched, cold |-> c.cold, src |-> c.src]

\* the key of a URL that is not ASCII: encodestring raises, outside the try,
\* and so does instance.links
LinksRaise(i) ==
    /\ i \in DOMAIN calls
    /\ calls[i].pc = "get"
    /\ calls[i].k <= Len(calls[i].ms)
    /\ CacheKey(calls[i].ms[calls[i].k].url) = UnicodeEncodeError
    /\ calls' = [j \in DOMAIN calls \ {i} |-> calls[j]]
    /\ obs' = Ended(i, calls[i], TRUE)
    /\ UNCHANGED <<now, tag, tagdb, db, db_tags, db_sites, inst, cache, wrote, hist, flips>>

\* the key of an ASCII URL and "if not cache.get(key)": the URL is fetched
\* when the cache gives nothing or an empty title
LinksGet(i) ==
    /\ i \in DOMAIN calls
    /\ calls[i].pc = "get"
    /\ calls[i].k <= Len(calls[i].ms)
    /\ CacheKey(calls[i].ms[calls[i].k].url) # UnicodeEncodeError
    /\ calls' = Running(i, [calls[i] EXCEPT !.pc =
                    IF Falsy(CacheGet(cache, CacheKey(calls[i].ms[calls[i].k].url), now))
                    THEN "fetch" ELSE "val"])
    /\ obs' = [op |-> "links.get", inst |-> i]
    /\ UNCHANGED <<now, tag, tagdb, db, db_tags, db_sites, inst, cache, wrote, hist, flips>>

\* call record c after the fetch of match m, whose cache key is key, did out
\* while the cache was C at time t; refetched collects the URLs fetched
\* although the cache held an unexpired entry not written by this evaluation
Fetched(c, m, key, out, C, t) ==
    [c EXCEPT !.pc = "val",
              !.fetched = Append(@, m.url),
              !.failed = @ /\ out.error,
              !.refetched = IF key \in Live(C, t) /\ m.url \notin Range(c.fetched)
                            THEN @ \cup {m.url} ELSE @]

\* the title found in the page a fetch returned, None when the fetch raised
\* or the page has no title
Found(out, title) == IF ~out.error /\ title.ok THEN title.title ELSE None

\* urllib.urlopen(url).read() returns or raises, having done out, and the
\* title is cached with cache.set
LinksFetch(i, out) ==
    /\ i \in DOMAIN calls
    /\ calls[i].pc = "fetch"
    /\ \E m \in {calls[i].ms[calls[i].k]} :
         \E key \in {CacheKey(m.url)} :
           /\ cache' = CacheSet(cache, key, FetchTitle(m, out), CACHE_TTL, now)
           /\ calls' = Running(i, Fetched(calls[i], m, key, out, cache, now))
           /\ wrote' = (key :> [text |-> m.text,
                                page_title |-> Found(out, TITLE_RE_search(out.html, 1))])
                            @@ wrote
    /\ obs' = [op |-> "links.set", inst |-> i, out |-> out]
    /\ UNCHANGED <<now, tag, tagdb, db, db_tags, db_sites, inst, hist, flips>>

\* call record c after the loop body from "val = cache.get(key)" for match
\* m, the cache having given val, read from an entry that w wrote
Collected(c, m, val, w) ==
    [LinkCollect(c, m, val) EXCEPT !.k = @ + 1, !.pc = "get",
                                   !.src = IF Falsy(val) THEN @ ELSE (m.url :> w) @@ @]

\* "val = cache.get(key)" and the rest of the loop body
LinksVal(i) ==
    /\ i \in DOMAIN calls
    /\ calls[i].pc = "val"
    /\ \E m \in {calls[i].ms[calls[i].k]} :
         \E key \in {CacheKey(m.url)} :
           calls' = Running(i, Collected(calls[i], m, CacheGet(cache, key, now),
                                         IF key \in DOMAIN wrote THEN wrote[key] ELSE None))
    /\ obs' = [op |-> "links.val", inst |-> i]
    /\ UNCHANGED <<now, tag, tagdb, db, db_tags, db_sites, inst, cache, wrote, hist, flips>>

\* the loop is over: instance.links returns
LinksReturn(i) ==
    /\ i \in DOMAIN calls
    /\ calls[i].pc = "get"
    /\ calls[i].k > Len(calls[i].ms)
    /\ calls' = [j \in DOMAIN calls \ {i} |-> calls[j]]
    /\ obs' = Ended(i, calls[i], FALSE)
    /\ UNCHANGED <<now, tag, tagdb, db, db_tags, db_sites, inst, cache, wrote, hist, flips>>

----------------------------------------------------------------------------
(* Link titles: articles whose content is a few anchors, fetches that fail
   or return a page, and a clock that runs past the cache's expiry *)

MaxAnchors == 2
URL_A == <<"h","t","t","p",":","/","/","x","/","a">>
URL_B == <<"h","t","t","p",":","/","/","x","/","b">>
LinkUrls == {URL_A, URL_B}
\* a URL with a no-break space, which is not ASCII
URL_N == <<"h","t","t","p",":","/","/","x","/", RawSpaces[7]>>
LinkTexts == {<<>>, <<"A">>}

\* <a href="url">text</a>
Anchor(url, text) ==
    <<"<","a"," ","h","r","e","f","=","\"">> \o url \o <<"\"", ">">> \o text
        \o <<"<","/","a",">">>

Anchors == {Anchor(u, x) : u \in LinkUrls, x \in LinkTexts} \cup {Anchor(URL_N, <<"A">>)}
LinkDocs == {Join(q, <<>>) : q \in SeqsUpTo(Anchors, MaxAnchors)}

Pages ==
    {<<"<","t","i","t","l","e",">","T","<","/","t","i","t","l","e",">">>,
     <<"<","p",">","x","<","/","p",">">>}
Outcomes == {UrlError} \cup {Page(h) : h \in Pages}

NextLinks ==
    \/ 1 \notin DOMAIN calls /\ Create(1, Author, <<>>, MARKUP_HTML)
    \/ \E d \in LinkDocs : 1 \notin DOMAIN calls /\ SetField(1, "rendered_content", d)
    \/ LinksBegin(1)
    \/ LinksRaise(1)
    \/ LinksGet(1)
    \/ \E out \in Outcomes : LinksFetch(1, out)
    \/ LinksVal(1)
    \/ LinksReturn(1)
    \/ now < CACHE_TTL /\ Tick(CACHE_TTL - now)
    \/ now = CACHE_TTL /\ Tick(1)

SpecLinks == Init /\ [][NextLinks]_vars

\* the anchors of instance i's rendered content, as LINK_RE finds them
AnchorsOf(i) == LINK_RE_finditer(inst[i].rendered_content, 1)

\* the position in ms of the first anchor that references url
FirstRef(ms, url) ==
    CHOOSE k \in 1..Len(ms) : ms[k].url = url /\ \A j \in 1..(k - 1) : ms[j].url # url

\* C3: with the cache empty and every fetch failing, links raises nothing
\* and returns one
\* (url, title) pair per distinct URL of the content, in order of the URL's
\* first appearance, titled with the text of the first anchor referencing it
C3_FallbackToFirstAnchorText ==
    (obs.op = "links" /\ obs.cold /\ obs.all_failed) =>
        /\ ~obs.raised
        /\ Len(obs.ret) = Cardinality({AnchorsOf(obs.inst)[k].url : k \in 1..Len(AnchorsOf(obs.inst))})
        /\ \A k \in 1..Len(obs.ret) :
            /\ \E j \in 1..Len(AnchorsOf(obs.inst)) : AnchorsOf(obs.inst)[j].url = obs.ret[k][1]
            /\ obs.ret[k][2] =
                 AnchorsOf(obs.inst)[FirstRef(AnchorsOf(obs.inst), obs.ret[k][1])].text
        /\ \A j, k \in 1..Len(obs.ret) :
            j < k => FirstRef(AnchorsOf(obs.inst), obs.ret[j][1])
                        < FirstRef(AnchorsOf(obs.inst), obs.ret[k][1])

\* C10: once an evaluation has cached a title for a URL, no later evaluation
\* fetches that URL until the entry expires: an evaluation fetches no URL
\* while the cache holds, under the URL's key, an unexpired entry that an
\* earlier evaluation put there
C10_OneFetchPerExpiryWindow ==
    obs.op = "links" => obs.refetched = {}

----------------------------------------------------------------------------
(* The description a save derives, on an instance whose teaser may have been
   read, and whose fields may have been edited, before the save *)

\* a text of at most WORD_LIMIT space-separated tokens unchanged, a longer
\* one cut to its first WORD_LIMIT tokens plus '...'
CutAtWordLimit(text) ==
    IF Spaces(text) + 1 <= WORD_LIMIT THEN text
    ELSE SubSeq(text, 1, NthSpace(text, WORD_LIMIT) - 1) \o <<".", ".", ".">>

\* C12 as stated: a save called with a blank description leaves in
\* description, in memory and in storage, the teaser of the rendered_content
\* this save produced, and persists the record twice
C12_DescriptionFromThisSave ==
    (obs.op = "save" /\ obs.no_description) =>
        /\ inst[obs.inst].description = CutAtWordLimit(inst[obs.inst].rendered_content)
        /\ db[inst[obs.inst].id].description
              = CutAtWordLimit(inst[obs.inst].rendered_content)
        /\ obs.writes = 2

----------------------------------------------------------------------------------------------------------------------------------------------------
(* The shared cache: two articles link to the same URL with different anchor
   texts and resolve their links at the same time, the cache calls of the two
   resolutions falling in any order *)

SharedTexts == {<<>>, <<"A">>, <<"B">>}
SharedDocs == {Anchor(URL_A, x) : x \in SharedTexts} \cup {Anchor(URL_N, <<"A">>)}
SharedOutcomes == {UrlError} \cup {Page(h) : h \in {CHOOSE p \in Pages : TITLE_RE_search(p, 1).ok}}

NextShared ==
    \/ \E i \in {1, 2} : i \notin DOMAIN inst /\ Create(i, Author, <<>>, MARKUP_HTML)
    \/ \E i \in {1, 2}, d \in SharedDocs :
            i \notin DOMAIN calls /\ SetField(i, "rendered_content", d)
    \/ \E i \in {1, 2} : LinksBegin(i)
    \/ \E i \in {1, 2} : LinksRaise(i)
    \/ \E i \in {1, 2} : LinksGet(i)
    \/ \E i \in {1, 2}, out \in SharedOutcomes : LinksFetch(i, out)
    \/ \E i \in {1, 2} : LinksVal(i)
    \/ \E i \in {1, 2} : LinksReturn(i)
    \/ now <= CACHE_TTL /\ Tick(CACHE_TTL)

SpecShared == Init /\ [][NextShared]_vars

\* the title a page gives, the given text when the fetch raised or the page
\* has no title; found is what TITLE_RE finds in the page
TitleOrFound(out, found, text) ==
    IF ~out.error /\ found.ok THEN found.title ELSE text

TitleOr(out, text) == TitleOrFound(out, TITLE_RE_search(out.html, 1), text)

\* the anchor the evaluation of instance i is at
At(i) == calls[i].ms[calls[i].k]

\* C11 as stated, for anchors with text: the title a resolution leaves in the
\* cache for a URL is the one any other article linking to that URL would
\* have left there for the same fetch outcome, whatever its anchor text
C11_TitleIndependentOfWriter ==
    (obs.op = "links.set" /\ At(obs.inst).text # <<>>) =>
        \A j \in DOMAIN inst \ {obs.inst} :
            \A k \in 1..Len(AnchorsOf(j)) :
                (AnchorsOf(j)[k].url = At(obs.inst).url
                    /\ AnchorsOf(j)[k].text # <<>>) =>
                    CacheGet(cache, CacheKey(AnchorsOf(j)[k].url), now)
                        = TitleOr(obs.out, AnchorsOf(j)[k].text)

\* the title that w, an entry of wrote, stands for: the page's title when the
\* fetch found one, else the anchor text of the article that wrote
TitleWritten(w) == IF w.page_title # None THEN w.page_title ELSE w.text

\* C11, amended: in every state the interleaved resolutions reach, the title
\* held in the cache for a URL is the page's title when the fetch of the
\* resolution that last wrote the entry returned a page with a title, the
\* same whichever article wrote, and is otherwise the anchor text of the
\* article that last wrote; and each title a links result reports for a URL
\* is the title of the entry it was read from, so again the page's title or
\* the anchor text of that entry's writer
C11_TitleFromPageOrWriter ==
    /\ DOMAIN wrote = DOMAIN cache
    /\ \A key \in DOMAIN cache : cache[key].value = TitleWritten(wrote[key])
    /\ obs.op = "links" =>
           \A r \in 1..Len(obs.ret) :
               obs.ret[r][2] = TitleWritten(obs.src[obs.ret[r][1]])

\* C11 witness: both articles miss in the cache and fetch, both fetches
\* fail; the article whose anchor reads 'A' caches 'A', the other then
\* caches 'B', and the first one reports the title 'B' it reads back
C11_Witness ==
    /\ obs.op = "links" /\ obs.inst = 1 /\ obs.all_failed /\ ~obs.raised
    /\ obs.fetched = <<URL_A>>
    /\ DOMAIN inst = {1, 2}
    /\ inst[1].rendered_content = Anchor(URL_A, <<"A">>)
    /\ inst[2].rendered_content = Anchor(URL_A, <<"B">>)
    /\ obs.ret = <<<<URL_A, <<"B">>>>>>
    /\ obs.src[URL_A] = [text |-> <<"B">>, page_title |-> None]
    /\ CacheGet(cache, CacheKey(URL_A), now) = <<"B">>

====
